---- MODULE Spec2Model ----
(***************************************************************************)
(* Model of the version identification and requirement matching engine of  *)
(* version-enforcer (src/src/identifier/semver.go).                        *)
(*                                                                         *)
(* A text is a sequence of one-character strings, so that trimming,        *)
(* splitting, integer conversion and the operator regular expression are   *)
(* computed character by character as the Go code computes them.           *)
(* A Go pointer to an int is a sequence: <<>> is nil, <<n>> points to n.   *)
(* Dereferencing nil panics; the panic is an explicit outcome.             *)
(***************************************************************************)
EXTENDS Integers, Sequences, FiniteSets, TLC

VARIABLES pc, versionText, requirementText, v, req, ret,
          cmpA, cmpB, cmpResult,
          runPc, cfg, idx, anyFailures, results, exitCode, exitCause

\* The arguments and the result of a call of CompareSemverVersions.
compareVars == <<cmpA, cmpB, cmpResult>>

\* One run of the command line: where it is, the loaded config, the loop
\* index, the anyFailures flag, what Satisfies returned for each binary
\* checked so far, and how the process ended.
runVars == <<runPc, cfg, idx, anyFailures, results, exitCode, exitCause>>

\* The state of the calls of the exported functions of the engine.
callVars == <<pc, versionText, requirementText, v, req, ret, compareVars>>

vars == <<pc, versionText, requirementText, v, req, ret, compareVars, runVars>>

----------------------------------------------------------------------------
(* Characters and strings (Go packages strings and strconv).               *)

Digits == <<"0", "1", "2", "3", "4", "5", "6", "7", "8", "9">>

IsDigit(c) == \E i \in 1..10 : Digits[i] = c

DigitVal(c) == (CHOOSE i \in 1..10 : Digits[i] = c) - 1

\* unicode.IsSpace restricted to the characters a TLA+ string can hold.
IsSpace(c) == c \in {" ", "\t", "\n", "\r", "\f"}

Min(S) == CHOOSE x \in S : \A y \in S : x <= y

Max(S) == CHOOSE x \in S : \A y \in S : x >= y

\* strings.TrimSpace: drop leading and trailing white space.
TrimSpace(s) ==
    LET keep == {i \in 1..Len(s) : ~IsSpace(s[i])}
    IN  IF keep = {} THEN <<>> ELSE SubSeq(s, Min(keep), Max(keep))

\* strings.HasPrefix
HasPrefix(s, p) == Len(s) >= Len(p) /\ SubSeq(s, 1, Len(p)) = p

\* strings.TrimPrefix: drop one leading occurrence of p.
TrimPrefix(s, p) ==
    IF HasPrefix(s, p) THEN SubSeq(s, Len(p) + 1, Len(s)) ELSE s

\* strings.SplitN(s, ".", n) for n > 0: at most n pieces, the last one is
\* the unsplit remainder.
RECURSIVE SplitN(_, _)
SplitN(s, n) ==
    LET dots == {i \in 1..Len(s) : s[i] = "."}
    IN  IF n <= 1 \/ dots = {}
        THEN <<s>>
        ELSE <<SubSeq(s, 1, Min(dots) - 1)>>
                 \o SplitN(SubSeq(s, Min(dots) + 1, Len(s)), n - 1)

RECURSIVE DigitsValue(_)
DigitsValue(s) ==
    IF s = <<>> THEN 0
    ELSE 10 * DigitsValue(SubSeq(s, 1, Len(s) - 1)) + DigitVal(s[Len(s)])

\* strconv.Atoi: an optional sign followed by one or more decimal digits.
\* (Texts of the model are far shorter than the 19 digits at which Atoi
\* reports a range error.)
Atoi(s) ==
    LET signed == Len(s) >= 1 /\ s[1] \in {"+", "-"}
        body   == IF signed THEN SubSeq(s, 2, Len(s)) ELSE s
    IN  IF body = <<>> \/ \E i \in 1..Len(body) : ~IsDigit(body[i])
        THEN [ok |-> FALSE, val |-> 0]
        ELSE [ok |-> TRUE,
              val |-> IF signed /\ s[1] = "-"
                      THEN 0 - DigitsValue(body) ELSE DigitsValue(body)]

----------------------------------------------------------------------------
(* SemverVersion and ParseVersion.                                         *)

Nil == <<>>

Ptr(n) == <<n>>

Deref(p) == p[1]

NoError == "nil"

ErrTooManyParts == "invalid version, too many parts"

\* The *strconv.NumError that Atoi returns.
ErrInvalidInteger == "strconv.Atoi: invalid syntax"

SemverVersion(major, minor, patch) ==
    [Major |-> major, Minor |-> minor, Patch |-> patch]

\* The (nil, err) return of ParseVersion.
VersionError(e) == [err |-> e, version |-> SemverVersion(0, Nil, Nil)]

\* A variant of VersionOk that fills the absent components with 0.
VersionOkFilled(sv) ==
    [err |-> NoError,
     version |-> SemverVersion(sv.Major,
                               IF sv.Minor = Nil THEN Ptr(0) ELSE sv.Minor,
                               IF sv.Patch = Nil THEN Ptr(0) ELSE sv.Patch)]

VersionOk(sv) == [err |-> NoError, version |-> sv]

SplitLimit == 3

MaxParts == 3

ParseVersion(text) ==
    LET s     == TrimPrefix(TrimSpace(text), <<"v">>)
        parts == SplitN(s, SplitLimit)
        major == Atoi(parts[1])
        minor == Atoi(parts[2])
        patch == Atoi(parts[3])
    IN  IF Len(parts) > MaxParts THEN VersionError(ErrTooManyParts)
        ELSE IF Len(parts) >= 1 /\ ~major.ok THEN VersionError(ErrInvalidInteger)
        ELSE IF Len(parts) >= 2 /\ ~minor.ok THEN VersionError(ErrInvalidInteger)
        ELSE IF Len(parts) = 3 /\ ~patch.ok THEN VersionError(ErrInvalidInteger)
        ELSE IF Len(parts) = 3
             THEN VersionOk(SemverVersion(major.val, Ptr(minor.val), Ptr(patch.val)))
        ELSE IF Len(parts) >= 2
             THEN VersionOk(SemverVersion(major.val, Ptr(minor.val), Nil))
        ELSE VersionOk(SemverVersion(major.val, Nil, Nil))

----------------------------------------------------------------------------
(* CompareSemverVersions: 1, -1 or 0.                                      *)

\* A variant of ComparePointers that reads an absent component as 0.
ComparePointersZero(x, y) ==
    LET xv == IF x # Nil THEN Deref(x) ELSE 0
        yv == IF y # Nil THEN Deref(y) ELSE 0
    IN  IF xv > yv THEN 1 ELSE IF xv < yv THEN -1 ELSE 0

\* A variant of ComparePointers whose last branch returns 1 as well.
ComparePointersOneSided(x, y) ==
    IF x # Nil /\ y # Nil
    THEN IF Deref(x) > Deref(y) THEN 1
         ELSE IF Deref(x) < Deref(y) THEN -1
         ELSE 0
    ELSE IF x # Nil THEN 1
    ELSE IF y # Nil THEN 1
    ELSE 0

\* One level of the comparison (minor, then patch): both present compare
\* numerically, a present component outranks an absent one, 0 falls through.
ComparePointers(x, y) ==
    IF x # Nil /\ y # Nil
    THEN IF Deref(x) > Deref(y) THEN 1
         ELSE IF Deref(x) < Deref(y) THEN -1
         ELSE 0
    ELSE IF x # Nil THEN 1
    ELSE IF y # Nil THEN -1
    ELSE 0

CompareSemverVersions(a, b) ==
    IF a.Major > b.Major THEN 1
    ELSE IF a.Major < b.Major THEN -1
    ELSE IF ComparePointers(a.Minor, b.Minor) # 0
         THEN ComparePointers(a.Minor, b.Minor)
    ELSE ComparePointers(a.Patch, b.Patch)

----------------------------------------------------------------------------
(* Requirement and NewRequirement.                                         *)

Exact == "Exact"

Caret == "Caret"

Tilde == "Tilde"

SingleConditionEqual == "SingleConditionEqual"

SingleConditionGreaterThan == "SingleConditionGreaterThan"

SingleConditionLessThan == "SingleConditionLessThan"

SingleConditionGreaterThanOrEqual == "SingleConditionGreaterThanOrEqual"

SingleConditionLessThanOrEqual == "SingleConditionLessThanOrEqual"

\* The (nil, err) return of NewRequirement.
RequirementError(e) ==
    [err |-> e, Type |-> Exact, Version |-> SemverVersion(0, Nil, Nil)]

\* An inner ParseVersion failure is returned as it is; otherwise the
\* Requirement of the given type wraps the parsed version.
Requirement(type, parsed) ==
    IF parsed.err # NoError THEN RequirementError(parsed.err)
    ELSE [err |-> NoError, Type |-> type, Version |-> parsed.version]

\* The character class [><=] of operatorRegex.
OperatorChars == {">", "<", "="}

\* The class \s of the regular expression.
IsRegexSpace(c) == c \in {" ", "\t", "\n", "\r", "\f"}

\* A variant of operatorRegex whose operator group is one character,
\* ([><=])\s*(.*).
operatorRegexOneChar(s) ==
    LET starts == {i \in 1..Len(s) : s[i] \in OperatorChars}
    IN  IF starts = {} THEN <<>>
        ELSE LET i == Min(starts)
                 j == Min({k \in (i + 1)..(Len(s) + 1) :
                              k = Len(s) + 1 \/ ~IsRegexSpace(s[k])})
                 e == Min({k \in j..(Len(s) + 1) :
                              k = Len(s) + 1 \/ s[k] = "\n"})
             IN  <<SubSeq(s, i, e - 1), SubSeq(s, i, i), SubSeq(s, j, e - 1)>>

\* operatorRegex.FindStringSubmatch(s) for ([><=]{1,2})\s*(.*): the
\* leftmost match, anywhere in s, each repetition greedy; "." does not
\* match a newline.  <<>> when nothing matches, otherwise
\* <<match, operator, version>>.
operatorRegex(s) ==
    LET starts == {i \in 1..Len(s) : s[i] \in OperatorChars}
    IN  IF starts = {} THEN <<>>
        ELSE LET i     == Min(starts)
                 opEnd == IF i + 1 <= Len(s) /\ s[i + 1] \in OperatorChars
                          THEN i + 1 ELSE i
                 j     == Min({k \in (opEnd + 1)..(Len(s) + 1) :
                                  k = Len(s) + 1 \/ ~IsRegexSpace(s[k])})
                 e     == Min({k \in j..(Len(s) + 1) :
                                  k = Len(s) + 1 \/ s[k] = "\n"})
             IN  <<SubSeq(s, i, e - 1), SubSeq(s, i, opEnd), SubSeq(s, j, e - 1)>>

conditionOperatorToType ==
    (<<"=", "=">> :> SingleConditionEqual) @@
    (<<">">> :> SingleConditionGreaterThan) @@
    (<<"<">> :> SingleConditionLessThan) @@
    (<<">", "=">> :> SingleConditionGreaterThanOrEqual) @@
    (<<"<", "=">> :> SingleConditionLessThanOrEqual)

NewRequirement(s) ==
    IF HasPrefix(s, <<"^">>)
    THEN Requirement(Caret, ParseVersion(SubSeq(s, 2, Len(s))))
    ELSE IF HasPrefix(s, <<"~">>)
    THEN Requirement(Tilde, ParseVersion(SubSeq(s, 2, Len(s))))
    ELSE LET matches == operatorRegex(s)
         IN  IF Len(matches) = 3 /\ matches[2] \in DOMAIN conditionOperatorToType
             THEN Requirement(conditionOperatorToType[matches[2]],
                              ParseVersion(matches[3]))
             ELSE Requirement(Exact, ParseVersion(s))

----------------------------------------------------------------------------
(* Satisfies.  Its outcome is a returned boolean or a panic (a nil pointer *)
(* dereference, which nothing in the call recovers).                       *)

Return(b) == [panic |-> FALSE, value |-> b]

Panic == [panic |-> TRUE, value |-> FALSE]

\* A variant of TildeMajor that keeps only the lower bound of the range.
TildeMajorAtLeast(ver, target) == Return(target.Major <= ver.Major)

\* A variant of TildeMajor that compares the whole versions.
TildeMajorCompared(ver, target) == Return(CompareSemverVersions(ver, target) = 0)

\* Tilde, requirement with a major version only.
TildeMajor(ver, target) == Return(target.Major = ver.Major)

\* Tilde, requirement with major and minor versions:
\* req.Version.Major == v.Major && *req.Version.Minor == *v.Minor
\* The right operand of && is evaluated only when the left one is true.
TildeMajorMinor(ver, target) ==
    IF target.Major # ver.Major THEN Return(FALSE)
    ELSE IF ver.Minor = Nil THEN Panic
    ELSE Return(Deref(target.Minor) = Deref(ver.Minor))

\* A variant of TildeMajorMinorPatch with > in place of >=.
TildeMajorMinorPatchStrict(ver, target) ==
    IF target.Major # ver.Major THEN Return(FALSE)
    ELSE IF ver.Minor = Nil THEN Panic
    ELSE IF Deref(target.Minor) # Deref(ver.Minor) THEN Return(FALSE)
    ELSE Return(CompareSemverVersions(ver, target) > 0)

\* Tilde, requirement with major, minor and patch versions.
TildeMajorMinorPatch(ver, target) ==
    IF target.Major # ver.Major THEN Return(FALSE)
    ELSE IF ver.Minor = Nil THEN Panic
    ELSE IF Deref(target.Minor) # Deref(ver.Minor) THEN Return(FALSE)
    ELSE Return(CompareSemverVersions(ver, target) >= 0)

\* A variant of ExactCaret that accepts every version from the target up.
ExactCaretAtLeast(ver, target) == Return(CompareSemverVersions(ver, target) >= 0)

\* case Exact, Caret
ExactCaret(ver, target) == Return(CompareSemverVersions(ver, target) = 0)

\* A variant of SingleCondition in which > and < also accept EQUAL.
SingleConditionInclusive(type, ver, target) ==
    CASE type = SingleConditionEqual ->
            Return(CompareSemverVersions(ver, target) = 0)
      [] type \in {SingleConditionGreaterThan, SingleConditionGreaterThanOrEqual} ->
            Return(CompareSemverVersions(ver, target) >= 0)
      [] type \in {SingleConditionLessThan, SingleConditionLessThanOrEqual} ->
            Return(CompareSemverVersions(ver, target) <= 0)

\* The five SingleCondition cases of the switch.
SingleCondition(type, ver, target) ==
    CASE type = SingleConditionEqual ->
            Return(CompareSemverVersions(ver, target) = 0)
      [] type = SingleConditionGreaterThan ->
            Return(CompareSemverVersions(ver, target) > 0)
      [] type = SingleConditionLessThan ->
            Return(CompareSemverVersions(ver, target) < 0)
      [] type = SingleConditionGreaterThanOrEqual ->
            Return(CompareSemverVersions(ver, target) >= 0)
      [] type = SingleConditionLessThanOrEqual ->
            Return(CompareSemverVersions(ver, target) <= 0)

\* The switch on req.Type, once both texts are parsed.
SatisfiesSwitch(ver, r) ==
    CASE r.Type \in {Exact, Caret} -> ExactCaret(ver, r.Version)
      [] r.Type = Tilde ->
            IF r.Version.Minor = Nil /\ r.Version.Patch = Nil
            THEN TildeMajor(ver, r.Version)
            ELSE IF r.Version.Patch = Nil
            THEN TildeMajorMinor(ver, r.Version)
            ELSE TildeMajorMinorPatch(ver, r.Version)
      [] r.Type \in {SingleConditionEqual, SingleConditionGreaterThan,
                     SingleConditionLessThan, SingleConditionGreaterThanOrEqual,
                     SingleConditionLessThanOrEqual} ->
            SingleCondition(r.Type, ver, r.Version)
      [] OTHER -> Return(FALSE)

\* The locals of a call that has not assigned them.
NoVersion == VersionError(NoError)

NoRequirement == RequirementError(NoError)

\* Satisfies(version, requirement): the requirement is parsed first and
\* the version is parsed only when the requirement parsed.
SatisfiesReq(requirement) == NewRequirement(requirement)

SatisfiesVersion(version, requirement) ==
    IF NewRequirement(requirement).err # NoError THEN NoVersion
    ELSE ParseVersion(version)

\* A variant of Satisfies without the check of the version's parse error:
\* it goes on with the zero version.
SatisfiesUnchecked(version, requirement) ==
    LET r   == NewRequirement(requirement)
        ver == ParseVersion(version)
    IN  IF r.err # NoError THEN Return(FALSE)
        ELSE SatisfiesSwitch(ver.version, r)

Satisfies(version, requirement) ==
    LET r   == NewRequirement(requirement)
        ver == ParseVersion(version)
    IN  IF r.err # NoError THEN Return(FALSE)
        ELSE IF ver.err # NoError THEN Return(FALSE)
        ELSE SatisfiesSwitch(ver.version, r)

----------------------------------------------------------------------------
(* Input texts.                                                            *)

\* Version components of the input texts range over 0..MaxNum.
MaxNum == 2

\* Input texts have 1..MaxSegments segments separated by dots.
MaxSegments == 4

RECURSIVE Itoa(_)
Itoa(n) == IF n < 10 THEN <<Digits[n + 1]>> ELSE Itoa(n \div 10) \o <<Digits[(n % 10) + 1]>>

RECURSIVE Dotted(_)
Dotted(segs) ==
    IF Len(segs) = 1 THEN segs[1]
    ELSE segs[1] \o <<".">> \o Dotted(SubSeq(segs, 2, Len(segs)))

\* The texts "M", "M.m" and "M.m.p".
Text1(M) == Itoa(M)

Text2(M, m) == Dotted(<<Itoa(M), Itoa(m)>>)

Text3(M, m, p) == Dotted(<<Itoa(M), Itoa(m), Itoa(p)>>)

Numerals == {Itoa(n) : n \in 0..MaxNum}

\* Segments that are not plain digit runs.
OddSegments == {<<>>, <<"x">>, <<"-", "1">>, <<"+", "1">>, <<"0", "1">>}

SegmentLists(S, lo, hi) == UNION {[1..k -> S] : k \in lo..hi}

\* "a", "a.b", "a.b.c" with components in 0..MaxNum.
PlainVersionTexts == {Dotted(f) : f \in SegmentLists(Numerals, 1, MaxParts)}

\* The segments of the texts that have more than MaxParts segments.
LongTextSegments == {Itoa(0), Itoa(1), <<"x">>}

\* Texts with up to MaxSegments segments, some of them not numbers, with
\* and without the "v" prefix and surrounding white space.
ParseVersionTexts ==
    {affix[1] \o Dotted(f) \o affix[2] :
        f \in SegmentLists(Numerals \cup OddSegments, 1, MaxParts)
              \cup SegmentLists(LongTextSegments, MaxParts + 1, MaxSegments),
        affix \in {<<<<>>, <<>>>>, <<<<"v">>, <<>>>>, <<<<" ", "v">>, <<" ">>>>}}

\* What may precede the version text of a requirement.
RequirementPrefixes ==
    {<<>>, <<"^">>, <<"~">>,
     <<"=", "=">>, <<">", "=">>, <<"<", "=">>, <<">">>, <<"<">>,
     <<">", " ">>, <<">", "=", " ", " ">>,
     <<"=">>, <<"=", ">">>, <<">", ">">>,
     <<"x", ">", "=">>, <<"1", ".", "2", ">">>, <<"x">>}

RequirementVersionTexts ==
    PlainVersionTexts \cup {<<"v", "1">>, <<"1", ".", "x">>, <<>>}

RequirementTexts ==
    {pre \o t : pre \in RequirementPrefixes, t \in RequirementVersionTexts}

\* The version texts handed to Satisfies: the plain ones and a few that
\* ParseVersion rejects or normalises.
SatisfiesVersionTexts ==
    PlainVersionTexts \cup
    {<<"v", "1", ".", "2">>, <<" ", "1">>, <<"x">>, <<>>,
     <<"1", ".", "2", ".", "3", ".", "4">>, <<"-", "1">>, <<"1", ".", "-", "1", ".", "0">>}

----------------------------------------------------------------------------
(* Programs, GetProgram, Identify and LoadConfig.                          *)

Programs == {"Make", "Git", "Bash", "Go", "Protobuf", "PkgConfig", "Poetry"}

\* identifierMap: the function that extracts the version of each program.
identifierMap ==
    [p \in Programs |->
        CASE p = "Make" -> "identifyMake"
          [] p = "Git" -> "identifyGit"
          [] p = "Bash" -> "identifyBash"
          [] p = "Go" -> "identifyGo"
          [] p = "Protobuf" -> "identifyProtobuf"
          [] p = "PkgConfig" -> "identifyPkgConfig"
          [] p = "Poetry" -> "identifyPoetry"]

programNameToProgramMap ==
    ("make" :> "Make") @@ ("git" :> "Git") @@ ("bash" :> "Bash") @@
    ("go" :> "Go") @@ ("protoc" :> "Protobuf") @@
    ("pkg-config" :> "PkgConfig") @@ ("poetry" :> "Poetry")

ErrProgramNotFound == "program not found"

ErrProgramNotSupported == "program not supported"

\* The error of a command that could not be run, or of an output in which
\* no version was found.
ErrIdentify == "failed to identify"

GetProgram(programName) ==
    IF programName \in DOMAIN programNameToProgramMap
    THEN [err |-> NoError, program |-> programNameToProgramMap[programName]]
    ELSE [err |-> ErrProgramNotFound, program |-> "Make"]

\* The last word of the first line of a program's output is any word.
LastWords ==
    {Text1(1), Text2(1, 2), Text3(1, 2, 0), Text3(2, 0, 0), <<"x">>}

\* The versions the regular expressions of identifyBash, identifyGo and
\* identifyPoetry extract: three numbers separated by dots.
ThreeNumbers == {Text3(1, 2, 0), Text3(2, 0, 0)}

\* Identify(p): the program's output comes from outside, so the result is
\* one of several: the command fails, the function of identifierMap finds
\* no version, or it returns a version text.
Identify(p) ==
    IF p \notin DOMAIN identifierMap
    THEN {[err |-> ErrProgramNotSupported, version |-> <<>>]}
    ELSE {[err |-> ErrIdentify, version |-> <<>>]}
         \cup {[err |-> NoError, version |-> w] :
                 w \in IF identifierMap[p] \in {"identifyBash", "identifyGo", "identifyPoetry"}
                       THEN ThreeNumbers ELSE LastWords}

\* A config has at most MaxBinaries binary blocks.
MaxBinaries == 2

Binary(name, version) == [Name |-> name, Version |-> version]

\* The binary blocks a config file may hold.
Binaries ==
    {Binary(n, t) :
        n \in {"git", "bash", "nosuch"},
        t \in {<<"~">> \o Text1(1), <<"~">> \o Text2(1, 2),
               <<"^">> \o Text3(1, 2, 0), <<"x">>}}

\* What hclsimple.DecodeFile makes of a config file: an error, or the list
\* of its binary blocks.
ConfigFiles ==
    {[decoded |-> FALSE, Binary |-> <<>>]}
    \cup {[decoded |-> TRUE, Binary |-> b] :
             b \in UNION {[1..k -> Binaries] : k \in 0..MaxBinaries}}

ErrDecode == "failed to decode config"

\* A variant of LoadConfig that does not try the version strings.
LoadConfigNamesOnly(file) ==
    IF ~file.decoded THEN [err |-> ErrDecode, Binary |-> <<>>]
    ELSE IF \E i \in 1..Len(file.Binary) : GetProgram(file.Binary[i].Name).err # NoError
         THEN [err |-> ErrProgramNotFound, Binary |-> <<>>]
         ELSE [err |-> NoError, Binary |-> file.Binary]

\* LoadConfig: the decoded config is returned only when, for every binary,
\* GetProgram accepts the name and NewRequirement parses the version; the
\* error is that of the first check that fails.
LoadConfig(file) ==
    IF ~file.decoded THEN [err |-> ErrDecode, Binary |-> <<>>]
    ELSE LET bad == {i \in 1..Len(file.Binary) :
                        \/ GetProgram(file.Binary[i].Name).err # NoError
                        \/ NewRequirement(file.Binary[i].Version).err # NoError}
         IN  IF bad = {} THEN [err |-> NoError, Binary |-> file.Binary]
             ELSE IF GetProgram(file.Binary[Min(bad)].Name).err # NoError
                  THEN [err |-> GetProgram(file.Binary[Min(bad)].Name).err,
                        Binary |-> <<>>]
             ELSE [err |-> NewRequirement(file.Binary[Min(bad)].Version).err,
                   Binary |-> <<>>]

\* exitCode while the process runs.
NotExited == -1

\* The exit status of a Go process that ends with a panic.
PanicExitCode == 2

----------------------------------------------------------------------------
(* The caller: it is idle, or one call of an exported function has         *)
(* returned (or panicked) and its arguments and results are in the state.  *)

NoText == <<>>

NoReturn == [panic |-> FALSE, value |-> FALSE]

\* The components a parsed version can hold: signed texts give negative ones.
ComponentValues == (-1)..MaxNum

\* The versions ParseVersion can return with these components.
Versions ==
    {SemverVersion(M, Nil, Nil) : M \in ComponentValues}
    \cup {SemverVersion(M, Ptr(m), Nil) : M \in ComponentValues, m \in ComponentValues}
    \cup {SemverVersion(f[1], Ptr(f[2]), Ptr(f[3])) : f \in [1..3 -> ComponentValues]}

ZeroVersion == SemverVersion(0, Nil, Nil)

Init ==
    /\ pc = "idle"
    /\ versionText = NoText
    /\ requirementText = NoText
    /\ v = NoVersion
    /\ req = NoRequirement
    /\ ret = NoReturn
    /\ cmpA = ZeroVersion
    /\ cmpB = ZeroVersion
    /\ cmpResult = 0
    /\ runPc = "start"
    /\ cfg = <<>>
    /\ idx = 0
    /\ anyFailures = FALSE
    /\ results = <<>>
    /\ exitCode = NotExited
    /\ exitCause = "none"

CallParseVersion ==
    /\ pc = "idle"
    /\ \E s \in ParseVersionTexts :
          /\ versionText' = s
          /\ v' = ParseVersion(s)
    /\ pc' = "ParseVersion"
    /\ UNCHANGED <<requirementText, req, ret, compareVars, runVars>>

CallNewRequirement ==
    /\ pc = "idle"
    /\ \E s \in RequirementTexts :
          /\ requirementText' = s
          /\ req' = NewRequirement(s)
    /\ pc' = "NewRequirement"
    /\ UNCHANGED <<versionText, v, ret, compareVars, runVars>>

CallSatisfies ==
    /\ pc = "idle"
    /\ \E version \in SatisfiesVersionTexts, requirement \in RequirementTexts :
          /\ versionText' = version
          /\ requirementText' = requirement
          /\ req' = SatisfiesReq(requirement)
          /\ v' = SatisfiesVersion(version, requirement)
          /\ ret' = Satisfies(version, requirement)
    /\ pc' = "Satisfies"
    /\ UNCHANGED <<compareVars, runVars>>

CallCompareSemverVersions ==
    /\ pc = "idle"
    /\ \E x \in Versions, y \in Versions :
          /\ cmpA' = x
          /\ cmpB' = y
          /\ cmpResult' = CompareSemverVersions(x, y)
    /\ pc' = "CompareSemverVersions"
    /\ UNCHANGED <<versionText, requirementText, v, req, ret, runVars>>

\* The caller drops the results of the call.
Done ==
    /\ pc # "idle"
    /\ pc' = "idle"
    /\ versionText' = NoText
    /\ requirementText' = NoText
    /\ v' = NoVersion
    /\ req' = NoRequirement
    /\ ret' = NoReturn
    /\ cmpA' = ZeroVersion
    /\ cmpB' = ZeroVersion
    /\ cmpResult' = 0
    /\ UNCHANGED runVars

Next ==
    \/ CallParseVersion
    \/ CallNewRequirement
    \/ CallSatisfies
    \/ CallCompareSemverVersions
    \/ Done

Spec == Init /\ [][Next]_vars

----------------------------------------------------------------------------
(* rootCmd.Run: load the config, check each binary, exit.                  *)

Exit(code, cause) ==
    /\ runPc' = "exited"
    /\ exitCode' = code
    /\ exitCause' = cause

\* config.LoadConfig and the exit on its error.
RunLoadConfig ==
    /\ runPc = "start"
    /\ \E file \in ConfigFiles :
          LET loaded == LoadConfig(file)
          IN  IF loaded.err # NoError
              THEN /\ Exit(1, "load")
                   /\ UNCHANGED <<cfg, idx, anyFailures, results>>
              ELSE /\ cfg' = loaded.Binary
                   /\ idx' = 1
                   /\ anyFailures' = FALSE
                   /\ results' = <<>>
                   /\ runPc' = "loop"
                   /\ UNCHANGED <<exitCode, exitCause>>
    /\ UNCHANGED callVars

\* One iteration of the loop over cfg.Binary: GetProgram, Identify,
\* Satisfies.  A panic of Satisfies is not recovered and ends the process.
RunBinary ==
    /\ runPc = "loop"
    /\ idx <= Len(cfg)
    /\ LET binary  == cfg[idx]
           program == GetProgram(binary.Name)
       IN  IF program.err # NoError
           THEN /\ Exit(1, "getprogram")
                /\ UNCHANGED <<cfg, idx, anyFailures, results>>
           ELSE \E version \in Identify(program.program) :
                  IF version.err # NoError
                  THEN /\ Exit(1, IF version.err = ErrProgramNotSupported
                                  THEN "notsupported" ELSE "identify")
                       /\ UNCHANGED <<cfg, idx, anyFailures, results>>
                  ELSE LET satisfies == Satisfies(version.version, binary.Version)
                       IN  IF satisfies.panic
                           THEN /\ Exit(PanicExitCode, "panic")
                                /\ UNCHANGED <<cfg, idx, anyFailures, results>>
                           ELSE /\ anyFailures' = (anyFailures \/ ~satisfies.value)
                                /\ results' = Append(results, satisfies.value)
                                /\ idx' = idx + 1
                                /\ UNCHANGED <<runPc, cfg, exitCode, exitCause>>
    /\ UNCHANGED callVars

\* After the loop: exit with status 1 if anyFailures, return otherwise.
RunEnd ==
    /\ runPc = "loop"
    /\ idx > Len(cfg)
    /\ Exit(IF anyFailures THEN 1 ELSE 0, "end")
    /\ UNCHANGED <<cfg, idx, anyFailures, results>>
    /\ UNCHANGED callVars

NextRun ==
    \/ RunLoadConfig
    \/ RunBinary
    \/ RunEnd

SpecRun == Init /\ [][NextRun]_vars

----------------------------------------------------------------------------
(* Properties.                                                             *)

\* The call of Satisfies parsed both of its texts.
SatisfiesParsed == pc = "Satisfies" /\ req.err = NoError /\ v.err = NoError

\* C1: Satisfies returns a boolean for every pair of texts; no pair makes it
\* panic, a Tilde requirement with a minor against a major-only version
\* included.
SatisfiesNeverPanics == pc = "Satisfies" => ~ret.panic

\* C2: a version with only the major component M satisfies "~M.0" and
\* "~M.0.0": Satisfies returns true for both.
MajorOnlySatisfiesTildeZero ==
    \A M \in 0..MaxNum :
        (/\ pc = "Satisfies"
         /\ versionText = Text1(M)
         /\ requirementText \in {<<"~">> \o Text2(M, 0), <<"~">> \o Text3(M, 0, 0)})
        => ret = Return(TRUE)

\* The number of dot-separated segments of a text.
SegmentCount(s) == Cardinality({i \in 1..Len(s) : s[i] = "."}) + 1

\* C3: ParseVersion fails with the TooManyParts error, and not with the
\* invalid-integer error, on every text of four or more dot-separated
\* segments.
FourSegmentsAreTooManyParts ==
    (pc = "ParseVersion" /\ SegmentCount(versionText) >= 4)
        => v.err = ErrTooManyParts

\* A segment of the text, as cut at every dot, carries a sign.
HasSignedSegment(s) ==
    \E i \in 1..Len(s) :
        /\ s[i] \in {"+", "-"}
        /\ i = 1 \/ s[i - 1] \in {".", "v", " "}

\* C4: every version ParseVersion returns has non-negative components, and
\* a text with a signed segment is rejected with the invalid-integer error.
ParsedComponentsNonNegative ==
    pc = "ParseVersion" =>
        /\ v.err = NoError =>
              /\ v.version.Major >= 0
              /\ v.version.Minor # Nil => Deref(v.version.Minor) >= 0
              /\ v.version.Patch # Nil => Deref(v.version.Patch) >= 0
        /\ HasSignedSegment(versionText) => v.err = ErrInvalidInteger

SingleConditionTypes ==
    {SingleConditionEqual, SingleConditionGreaterThan, SingleConditionLessThan,
     SingleConditionGreaterThanOrEqual, SingleConditionLessThanOrEqual}

BeginsWithOperator(s) ==
    \E op \in DOMAIN conditionOperatorToType : HasPrefix(s, op)

\* C5: NewRequirement produces a SingleCondition requirement only for a text
\* that begins with an operator; a text that begins with neither "^", "~"
\* nor an operator is parsed as a whole as a version under the Exact rule.
SingleConditionOnlyAtStart ==
    pc = "NewRequirement" =>
        /\ (req.err = NoError /\ req.Type \in SingleConditionTypes)
              => BeginsWithOperator(requirementText)
        /\ (/\ ~HasPrefix(requirementText, <<"^">>)
            /\ ~HasPrefix(requirementText, <<"~">>)
            /\ ~BeginsWithOperator(requirementText))
              => req = Requirement(Exact, ParseVersion(requirementText))

\* The call is Satisfies(v, "~M") with a parseable version text.
IsTildeMajorCall(M) ==
    /\ SatisfiesParsed
    /\ requirementText = <<"~">> \o Text1(M)

\* Satisfies(v, ">=M.0.0") AND Satisfies(v, "<(M+1).0.0")
InMajorRange(version, M) ==
    /\ Satisfies(version, <<">", "=">> \o Text3(M, 0, 0)) = Return(TRUE)
    /\ Satisfies(version, <<"<">> \o Text3(M + 1, 0, 0)) = Return(TRUE)

\* C6 as stated: for every parseable version v of 1, 2 or 3 components,
\* Satisfies(v, "~M") = Satisfies(v, ">=M.0.0") AND Satisfies(v, "<(M+1).0.0").
TildeMajorIsRangeForAllVersions ==
    \A M \in 0..MaxNum :
        IsTildeMajorCall(M) => (ret = Return(InMajorRange(versionText, M)))

\* C6 as amended: the equality holds for every parseable version that has
\* all three components, with minor and patch not negative.
TildeMajorIsRangeForFullVersions ==
    \A M \in 0..MaxNum :
        (/\ IsTildeMajorCall(M)
         /\ v.version.Minor # Nil /\ Deref(v.version.Minor) >= 0
         /\ v.version.Patch # Nil /\ Deref(v.version.Patch) >= 0)
        => (ret = Return(InMajorRange(versionText, M)))

\* A version of three components satisfied "~1".
TildeMajorIsRangeWitness ==
    /\ IsTildeMajorCall(1)
    /\ v.version.Patch # Nil
    /\ ret = Return(TRUE)

\* The call is Satisfies with a Tilde requirement, both texts parsed.
IsTildeCall == SatisfiesParsed /\ req.Type = Tilde

\* C7: for a Tilde requirement with major and minor but no patch, Satisfies
\* returns true iff majors are equal and minors are equal; a version
\* without a minor gets false.
TildeMajorMinorResult ==
    (IsTildeCall /\ req.Version.Minor # Nil /\ req.Version.Patch = Nil)
    => ret = Return(/\ v.version.Major = req.Version.Major
                    /\ v.version.Minor # Nil
                    /\ v.version.Minor = req.Version.Minor)

\* C8: for a Tilde requirement with major, minor and patch and a version
\* that has a minor, Satisfies returns true iff majors are equal, minors
\* are equal and the version compares >= the target; without a patch the
\* version never satisfies it, with one it does iff its patch is >= the
\* target's.
TildeFullResult ==
    (IsTildeCall /\ req.Version.Patch # Nil /\ v.version.Minor # Nil)
    => /\ ret = Return(/\ v.version.Major = req.Version.Major
                       /\ v.version.Minor = req.Version.Minor
                       /\ CompareSemverVersions(v.version, req.Version) >= 0)
       /\ ret = Return(/\ v.version.Major = req.Version.Major
                       /\ v.version.Minor = req.Version.Minor
                       /\ v.version.Patch # Nil
                       /\ Deref(v.version.Patch) >= Deref(req.Version.Patch))

\* "1.2.2" satisfied "~1.2.2": the patch equals the target's.
TildeFullWitness ==
    /\ IsTildeCall
    /\ versionText = Text3(1, 2, 2)
    /\ requirementText = <<"~">> \o Text3(1, 2, 2)
    /\ ret = Return(TRUE)

\* C9: for a Tilde requirement with only a major, Satisfies returns true iff
\* the majors are equal, whatever minor and patch the version has.
TildeMajorResult ==
    (IsTildeCall /\ req.Version.Minor = Nil)
    => ret = Return(v.version.Major = req.Version.Major)

\* "1.2" satisfied "~1".
TildeMajorWitness ==
    /\ IsTildeCall
    /\ versionText = Text2(1, 2)
    /\ requirementText = <<"~">> \o Text1(1)
    /\ ret = Return(TRUE)

\* How many components a version has.
Components(sv) ==
    IF sv.Patch # Nil THEN 3 ELSE IF sv.Minor # Nil THEN 2 ELSE 1

\* C10: for Exact and Caret requirements Satisfies returns true iff the
\* version compares EQUAL to the target, which is equality component by
\* component, presence included; "^t" accepts what the Exact requirement
\* "t" accepts; a version with more components than the target fails.
ExactCaretResult ==
    (SatisfiesParsed /\ req.Type \in {Exact, Caret})
    => /\ ret = Return(CompareSemverVersions(v.version, req.Version) = 0)
       /\ ret = Return(v.version = req.Version)
       /\ Components(v.version) > Components(req.Version) => ret = Return(FALSE)
       /\ (/\ req.Type = Caret
           /\ NewRequirement(Tail(requirementText)).Type = Exact)
          => ret = Satisfies(versionText, Tail(requirementText))

\* "1.2.0" satisfied "^1.2.0".
ExactCaretWitness ==
    /\ SatisfiesParsed
    /\ req.Type = Caret
    /\ versionText = Text3(1, 2, 0)
    /\ requirementText = <<"^">> \o Text3(1, 2, 0)
    /\ ret = Return(TRUE)

\* The relation each SingleCondition kind names, on the comparison result.
NamedRelation(type, c) ==
    CASE type = SingleConditionEqual -> c = 0
      [] type = SingleConditionGreaterThan -> c = 1
      [] type = SingleConditionLessThan -> c = -1
      [] type = SingleConditionGreaterThanOrEqual -> c \in {0, 1}
      [] type = SingleConditionLessThanOrEqual -> c \in {-1, 0}

\* C11: for each SingleCondition kind Satisfies returns true iff the result
\* of CompareSemverVersions(version, target) stands in the named relation
\* to EQUAL.
SingleConditionResult ==
    (SatisfiesParsed /\ req.Type \in SingleConditionTypes)
    => ret = Return(NamedRelation(req.Type,
                                  CompareSemverVersions(v.version, req.Version)))

\* "1.2.0" satisfied ">=1.2": it compares GREATER than the target.
SingleConditionWitness ==
    /\ SatisfiesParsed
    /\ req.Type = SingleConditionGreaterThanOrEqual
    /\ versionText = Text3(1, 2, 0)
    /\ requirementText = <<">", "=">> \o Text2(1, 2)
    /\ ret = Return(TRUE)

\* C12: Satisfies returns false, and neither an error nor a panic, whenever
\* the version text fails ParseVersion or the requirement text fails
\* NewRequirement; so a true result implies both texts parsed.
ParseFailureIsFalse ==
    pc = "Satisfies" =>
        /\ (\/ ParseVersion(versionText).err # NoError
            \/ NewRequirement(requirementText).err # NoError)
           => ret = Return(FALSE)
        /\ ret = Return(TRUE)
           => /\ ParseVersion(versionText).err = NoError
              /\ NewRequirement(requirementText).err = NoError

\* The version text "x" did not parse, the requirement "0" did, and
\* Satisfies returned false.
ParseFailureWitness ==
    /\ pc = "Satisfies"
    /\ versionText = <<"x">>
    /\ requirementText = Text1(0)
    /\ req.err = NoError
    /\ v.err = ErrInvalidInteger
    /\ ret = Return(FALSE)

\* A version as a list of integers whose lexicographic order ranks an
\* absent component below every present one: each optional component is a
\* presence flag followed by its value.
LexKey(sv) ==
    <<sv.Major,
      IF sv.Minor = Nil THEN 0 ELSE 1, IF sv.Minor = Nil THEN 0 ELSE Deref(sv.Minor),
      IF sv.Patch = Nil THEN 0 ELSE 1, IF sv.Patch = Nil THEN 0 ELSE Deref(sv.Patch)>>

\* The lexicographic comparison of two lists of the same length.
RECURSIVE LexCompare(_, _)
LexCompare(s, t) ==
    IF s = <<>> THEN 0
    ELSE IF Head(s) > Head(t) THEN 1
    ELSE IF Head(s) < Head(t) THEN -1
    ELSE LexCompare(Tail(s), Tail(t))

\* C13: CompareSemverVersions is the lexicographic comparison over (major,
\* minor, patch) in which an absent minor or patch ranks below every
\* present value; in particular "1" compares LESS than "1.0".
CompareIsLexicographic ==
    pc = "CompareSemverVersions" =>
        /\ cmpResult = LexCompare(LexKey(cmpA), LexKey(cmpB))
        /\ cmpA.Major # cmpB.Major
           => cmpResult = IF cmpA.Major > cmpB.Major THEN 1 ELSE -1
        /\ (cmpA.Major = cmpB.Major /\ cmpA.Minor # Nil /\ cmpB.Minor = Nil)
           => cmpResult = 1
        /\ (cmpA.Major = cmpB.Major /\ cmpA.Minor = Nil /\ cmpB.Minor # Nil)
           => cmpResult = -1

\* "1" was compared with "1.0" and the result was LESS.
CompareIsLexicographicWitness ==
    /\ pc = "CompareSemverVersions"
    /\ cmpA = SemverVersion(1, Nil, Nil)
    /\ cmpB = SemverVersion(1, Ptr(0), Nil)
    /\ cmpResult = -1

\* C14: CompareSemverVersions(x, x) is EQUAL, and CompareSemverVersions(x, y)
\* is the inverse of CompareSemverVersions(y, x).
CompareIsAntisymmetric ==
    pc = "CompareSemverVersions" =>
        /\ cmpA = cmpB => cmpResult = 0
        /\ cmpResult = 0 - CompareSemverVersions(cmpB, cmpA)

\* "1.2" was compared with "1" and the result was GREATER.
CompareIsAntisymmetricWitness ==
    /\ pc = "CompareSemverVersions"
    /\ cmpA = SemverVersion(1, Ptr(2), Nil)
    /\ cmpB = SemverVersion(1, Nil, Nil)
    /\ cmpResult = 1

\* The longest of the operators ==, >=, <=, >, < that the text begins with.
LongestOperatorAtStart(s) ==
    LET ops == {op \in DOMAIN conditionOperatorToType : HasPrefix(s, op)}
    IN  CHOOSE op \in ops : \A other \in ops : Len(op) >= Len(other)

\* The text without its leading white space.
SkipSpaces(s) ==
    LET keep == {i \in 1..Len(s) : ~IsSpace(s[i])}
    IN  IF keep = {} THEN <<>> ELSE SubSeq(s, Min(keep), Len(s))

\* C15: for a text that begins with an operator, NewRequirement selects the
\* longest operator at the start (">=" and "<=" rather than ">" and "<" with
\* a remainder that starts with "="), and white space between the operator
\* and the version is ignored.
LongestOperatorSelected ==
    (pc = "NewRequirement" /\ BeginsWithOperator(requirementText))
    => LET op   == LongestOperatorAtStart(requirementText)
           rest == SubSeq(requirementText, Len(op) + 1, Len(requirementText))
       IN  /\ req = Requirement(conditionOperatorToType[op], ParseVersion(rest))
           /\ req = NewRequirement(op \o SkipSpaces(rest))
           /\ (HasPrefix(requirementText, <<">", "=">>) /\ req.err = NoError)
              => req.Type = SingleConditionGreaterThanOrEqual
           /\ (HasPrefix(requirementText, <<"<", "=">>) /\ req.err = NoError)
              => req.Type = SingleConditionLessThanOrEqual

\* ">=  1.2" was parsed as GreaterThanOrEqual on 1.2.
LongestOperatorWitness ==
    /\ pc = "NewRequirement"
    /\ requirementText = <<">", "=", " ", " ">> \o Text2(1, 2)
    /\ req = [err |-> NoError, Type |-> SingleConditionGreaterThanOrEqual,
              Version |-> SemverVersion(1, Ptr(2), Nil)]

\* C16: for every text "a", "a.b" or "a.b.c" of non-negative integers
\* ParseVersion succeeds with major a, minor present and equal to b iff two
\* or more segments were given, patch present and equal to c iff three were
\* given; in every parsed version a present patch implies a present minor.
ParseVersionRoundTrip ==
    /\ pc = "ParseVersion" =>
          \A x \in 0..MaxNum, y \in 0..MaxNum, z \in 0..MaxNum :
              /\ versionText = Text1(x)
                 => v = [err |-> NoError, version |-> SemverVersion(x, Nil, Nil)]
              /\ versionText = Text2(x, y)
                 => v = [err |-> NoError, version |-> SemverVersion(x, Ptr(y), Nil)]
              /\ versionText = Text3(x, y, z)
                 => v = [err |-> NoError, version |-> SemverVersion(x, Ptr(y), Ptr(z))]
    /\ (pc \in {"ParseVersion", "Satisfies"} /\ v.err = NoError)
          => (v.version.Patch # Nil => v.version.Minor # Nil)

\* "1.2" was parsed: the minor is present, the patch is not.
ParseVersionRoundTripWitness ==
    /\ pc = "ParseVersion"
    /\ versionText = Text2(1, 2)
    /\ v = [err |-> NoError, version |-> SemverVersion(1, Ptr(2), Nil)]

\* The process ended because the config did not load or a binary could not
\* be identified.
ExitedOnLoadOrIdentify ==
    exitCause \in {"load", "getprogram", "notsupported", "identify"}

\* C17: a mismatch does not stop the run, every later binary is identified
\* and checked, and the process exits after the loop with status 1 iff a
\* binary failed its requirement; it exits with status 1 at once when the
\* config does not load or a binary cannot be identified; it ends with
\* status 0 only when every binary satisfied its requirement.
RunChecksEveryBinary ==
    /\ runPc = "loop" =>
          /\ Len(results) = idx - 1
          /\ anyFailures = (\E i \in 1..Len(results) : ~results[i])
    /\ runPc = "exited" =>
          /\ ExitedOnLoadOrIdentify => exitCode = 1
          /\ ~ExitedOnLoadOrIdentify =>
                /\ Len(results) = Len(cfg)
                /\ exitCode = IF \E i \in 1..Len(results) : ~results[i]
                              THEN 1 ELSE 0
          /\ exitCode = 0 =>
                /\ Len(results) = Len(cfg)
                /\ \A i \in 1..Len(results) : results[i]

\* LoadConfig returned a config without error in this run.
ConfigLoaded == runPc # "start" /\ exitCause # "load"

\* C18: after a successful LoadConfig every binary of the config has a name
\* GetProgram accepts, whose Program has an entry in identifierMap, and a
\* version NewRequirement parses; the run never ends in the GetProgram
\* error branch or with ErrProgramNotSupported.
LoadedConfigIsValid ==
    ConfigLoaded =>
        /\ \A i \in 1..Len(cfg) :
              /\ cfg[i].Name \in DOMAIN programNameToProgramMap
              /\ programNameToProgramMap[cfg[i].Name] \in DOMAIN identifierMap
              /\ NewRequirement(cfg[i].Version).err = NoError
        /\ exitCause \notin {"getprogram", "notsupported"}

\* A config of two binaries was loaded and its first binary was checked.
LoadedConfigWitness ==
    /\ ConfigLoaded
    /\ runPc = "loop"
    /\ Len(cfg) = 2
    /\ idx = 2
    /\ Len(results) = 1

====
